---- MODULE Spec2Model ----
(***************************************************************************)
(* Model of the task tracker's prefix search index (TaskSearchIndex, a     *)
(* trie over all suffixes of the lowercased task text) and of the record   *)
(* store (Tasks) that rebuilds the index lazily behind a dirty flag.       *)
(*                                                                         *)
(* Text is a sequence of one-character strings.  A Task object lives at an *)
(* address; the trie holds addresses (std::reference_wrapper<const Task>), *)
(* and identity of a back-reference is identity of the address.            *)
(***************************************************************************)
EXTENDS Integers, Sequences, FiniteSets, TLC

VARIABLES heap, root_, total_indexed_tasks_, tasks, nextId, index_dirty_,
          stats_dirty_, file, lastOp, result, hist,
          cached_stats_, save_future_, save_threads

vars == <<heap, root_, total_indexed_tasks_, tasks, nextId, index_dirty_,
          stats_dirty_, file, lastOp, result, hist,
          cached_stats_, save_future_, save_threads>>

indexVars == <<root_, total_indexed_tasks_>>
\* the statistics cache, the handle of the last background save, and the
\* background threads that have not finished
asyncVars == <<cached_stats_, save_future_, save_threads>>
storeVars == <<tasks, nextId, index_dirty_, stats_dirty_, file, asyncVars>>

(***************************************************************************)
(* Bounds of the model.                                                    *)
(***************************************************************************)
\* cap of the record counter of the index (size_t in the source)
MaxIndexed == 2
\* cap of the store's id counter (int in the source)
MaxId == 2

\* addresses at which Task objects live
Addrs == {1, 2}

Range(s) == {s[i] : i \in 1..Len(s)}

(***************************************************************************)
(* Text inputs.                                                            *)
(***************************************************************************)
Queries == {<<>>, <<"A", "b">>, <<"B">>, <<"o">>, <<"X">>, <<"z">>}

TODO == 1
IN_PROGRESS == 2
COMPLETED == 3
LOW == 1
MEDIUM == 2
HIGH == 3

(***************************************************************************)
(* Utils::toLowerCase: std::tolower on every character.                    *)
(***************************************************************************)
UpperLetters == <<"A", "B", "C", "D", "E", "F", "G", "H", "I", "J", "K", "L", "M",
                  "N", "O", "P", "Q", "R", "S", "T", "U", "V", "W", "X", "Y", "Z">>
LowerLetters == <<"a", "b", "c", "d", "e", "f", "g", "h", "i", "j", "k", "l", "m",
                  "n", "o", "p", "q", "r", "s", "t", "u", "v", "w", "x", "y", "z">>

tolower(c) ==
    IF \E i \in 1..Len(UpperLetters) : UpperLetters[i] = c
    THEN LowerLetters[CHOOSE i \in 1..Len(UpperLetters) : UpperLetters[i] = c]
    ELSE c

\* a conversion that leaves every character as it is
keepCase(str) == str

toLowerCase(str) == [i \in 1..Len(str) |-> tolower(str[i])]

\* Utils::contains / std::string::find(needle) != npos
contains(haystack, needle) ==
    \E i \in 0..(Len(haystack) - Len(needle)) :
        SubSeq(haystack, i + 1, i + Len(needle)) = needle

(***************************************************************************)
(* Task objects.                                                           *)
(***************************************************************************)
\* the content of an address that holds no Task
NoTask == [id |-> 0, name |-> <<>>, status |-> TODO, priority |-> LOW,
           completed_at |-> FALSE, description |-> <<>>, tags |-> <<>>]

\* Task::Task (the caller has checked that name is not empty)
NewTask(id, name, status, priority) ==
    [id |-> id, name |-> name, status |-> status, priority |-> priority,
     completed_at |-> FALSE, description |-> <<>>, tags |-> <<>>]

getStatusString(task) ==
    CASE task.status = TODO -> <<"T", "o", "-", "D", "o">>
      [] task.status = IN_PROGRESS -> <<"I", "n", " ", "P", "r", "o", "g", "r", "e", "s", "s">>
      [] task.status = COMPLETED -> <<"C", "o", "m", "p", "l", "e", "t", "e", "d">>
      [] OTHER -> <<"U", "n", "k", "n", "o", "w", "n">>

getPriorityString(task) ==
    CASE task.priority = LOW -> <<"L", "o", "w">>
      [] task.priority = MEDIUM -> <<"M", "e", "d", "i", "u", "m">>
      [] task.priority = HIGH -> <<"H", "i", "g", "h">>
      [] OTHER -> <<"U", "n", "k", "n", "o", "w", "n">>

setStatus(task, status) ==
    [task EXCEPT !.status = status,
                 !.completed_at = IF status = COMPLETED /\ task.status # COMPLETED THEN TRUE
                                  ELSE IF status # COMPLETED THEN FALSE
                                  ELSE @]

markCompleted(task) == setStatus(task, COMPLETED)

hasTag(task, tag) == tag \in Range(task.tags)

addTag(task, tag) ==
    IF tag # <<>> /\ ~hasTag(task, tag)
    THEN [task EXCEPT !.tags = Append(@, tag)]
    ELSE task

\* std::ranges::find + erase: the first occurrence only
removeTag(task, tag) ==
    IF hasTag(task, tag)
    THEN LET k == CHOOSE i \in 1..Len(task.tags) :
                      task.tags[i] = tag /\ \A j \in 1..(i - 1) : task.tags[j] # tag
         IN [task EXCEPT !.tags = SubSeq(@, 1, k - 1) \o SubSeq(@, k + 1, Len(@))]
    ELSE task

(***************************************************************************)
(* The trie.  A trie is a function from the path of a node (the characters *)
(* on the edges from the root) to the node; the root has the empty path.   *)
(***************************************************************************)
EmptyNode == [children |-> {}, tasks |-> <<>>]
EmptyTrie == (<<>> :> EmptyNode)
NullNode == <<"nullptr">>

\* the strings of a task without its two labels
IndexedStringsNoLabels(task) ==
    <<toLowerCase(task.name)>>
    \o (IF task.description # <<>> THEN <<toLowerCase(task.description)>> ELSE <<>>)
    \o [i \in 1..Len(task.tags) |-> toLowerCase(task.tags[i])]

\* the strings addTask and removeTask walk for a task, in the order of the code
IndexedStrings(task) ==
    <<toLowerCase(task.name)>>
    \o (IF task.description # <<>> THEN <<toLowerCase(task.description)>> ELSE <<>>)
    \o [i \in 1..Len(task.tags) |-> toLowerCase(task.tags[i])]
    \o <<toLowerCase(getStatusString(task)), toLowerCase(getPriorityString(task))>>

\* the paths of the nodes that indexString visits for str: SubSeq(str, i, j) for
\* every start offset i and every end j (the empty path is the root)
WalkedPaths(str) ==
    {SubSeq(str, i, j) : i \in 1..Len(str), j \in 0..Len(str)}

\* the characters c for which indexString(str) looks up children[c] at node p
WalkedEdges(str, p) ==
    {str[j + 1] : j \in {k \in Len(p)..(Len(str) - 1) : SubSeq(str, k - Len(p) + 1, k) = p}}

\* a walk from offset 0 only: the whole string and none of its suffixes
WholeStringCount(str, p) == IF str = p THEN 1 ELSE 0

\* a reference at every node a walk visits, the root where it starts included
VisitedCount(str, p) == IF p \in WalkedPaths(str) THEN 1 ELSE 0

\* the number of start offsets i with str[i..] = p
FinalCount(str, p) == Cardinality({i \in 1..Len(str) : SubSeq(str, i, Len(str)) = p})

RECURSIVE SumOver(_, _, _)
SumOver(strs, p, k) ==
    IF k > Len(strs) THEN 0 ELSE FinalCount(strs[k], p) + SumOver(strs, p, k + 1)

\* the duplicate check and emplace_back at the final node, made n times
AddRefNoCheck(refs, a, n) == refs \o [i \in 1..n |-> a]
AddRef(refs, a, n) ==
    IF n = 0 \/ a \in Range(refs) THEN refs ELSE Append(refs, a)

\* indexString for every string of strs in turn: each walk creates the missing
\* children on its path (a node is created empty) and the final node of each
\* walk gets the reference unless it already lists it.  The walks only add
\* nodes, edges and references, so the result does not depend on their order.
\* A node off the walked paths is left as it is.
tolowerAll(str) == [i \in 1..Len(str) |-> tolower(str[i])]
indexStrings(t, strs, a) ==
    LET low == [k \in 1..Len(strs) |-> tolowerAll(strs[k])]
        walked == UNION {WalkedPaths(low[k]) : k \in 1..Len(strs)}
    IN [p \in walked |->
          LET old == IF p \in DOMAIN t THEN t[p] ELSE EmptyNode
          IN [children |-> old.children \cup UNION {WalkedEdges(low[k], p) : k \in 1..Len(strs)},
              tasks |-> AddRef(old.tasks, a, SumOver(low, p, 1))]] @@ t

indexString(t, str, a) == IF str = <<>> THEN t ELSE indexStrings(t, <<str>>, a)

\* inner loop of removeStringFromIndex: follow existing edges, stop at a missing one
RECURSIVE WalkExisting(_, _, _)
WalkExisting(t, cur, rest) ==
    IF rest = <<>> THEN cur
    ELSE IF tolower(Head(rest)) \notin t[cur].children THEN cur
    ELSE WalkExisting(t, Append(cur, tolower(Head(rest))), Tail(rest))

\* a removal that walks from offset 0 only
WholeStringTarget(t, str) == {WalkExisting(t, <<>>, str)}

\* the nodes at which the walks of removeStringFromIndex(str) end
RemovalTargets(t, str) ==
    {WalkExisting(t, <<>>, SubSeq(str, start, Len(str))) : start \in 1..Len(str)}

\* an erase that empties the list
EraseAll(refs, a) == <<>>

\* an erase by value: every reference to an object equal to the one at a
EraseEqual(refs, a) == SelectSeq(refs, LAMBDA x : heap[x] # heap[a])

EraseRef(refs, a) == SelectSeq(refs, LAMBDA x : x # a)

\* a removal that also deletes the nodes below which no reference is left
removeStringsPruning(t, strs, a) ==
    LET targets == UNION {RemovalTargets(t, strs[k]) : k \in 1..Len(strs)}
        erased == [p \in DOMAIN t |->
                     IF p \in targets THEN [t[p] EXCEPT !.tasks = EraseRef(@, a)] ELSE t[p]]
        Live(p) == \E q \in DOMAIN t :
                      /\ Len(q) >= Len(p)
                      /\ SubSeq(q, 1, Len(p)) = p
                      /\ erased[q].tasks # <<>>
        keep == {p \in DOMAIN t : p = <<>> \/ Live(p)}
    IN [p \in keep |->
          [children |-> {c \in erased[p].children : Append(p, c) \in keep},
           tasks |-> erased[p].tasks]]

\* removeStringFromIndex for every string of strs in turn: no walk changes an
\* edge, so every walk ends where it would end in the trie before the call
removeStrings(t, strs, a) ==
    LET targets == UNION {RemovalTargets(t, strs[k]) : k \in 1..Len(strs)}
    IN [p \in DOMAIN t |->
          IF p \in targets THEN [t[p] EXCEPT !.tasks = EraseRef(@, a)] ELSE t[p]]

removeStringFromIndex(t, str, a) == IF str = <<>> THEN t ELSE removeStrings(t, <<str>>, a)

\* a lookup that stops at a missing edge and returns the node it has reached
FindDeepest(t, cur, rest) == WalkExisting(t, cur, rest)

\* TaskSearchIndex::findNode
RECURSIVE FindFrom(_, _, _)
FindFrom(t, cur, rest) ==
    IF rest = <<>> THEN cur
    ELSE LET lowerC == tolower(Head(rest))
         IN IF lowerC \notin t[cur].children THEN NullNode
            ELSE FindFrom(t, Append(cur, lowerC), Tail(rest))

findNode(t, prefix) == FindFrom(t, <<>>, prefix)

\* iteration order of a node's children.  The source iterates a std::unordered_map,
\* whose order is unspecified but fixed for a given map; the model iterates in the
\* order of CharOrder, and no property below speaks about the order of a result.
CharOrder == LowerLetters \o <<" ", "-">>
ChildSeq(children) == SelectSeq(CharOrder, LAMBDA c : c \in children)

\* the references in the order in which a depth-first walk from node n meets them:
\* the node's own list, then each child's subtree (collectAllTasks)
RECURSIVE CollectAll(_, _)
RECURSIVE CollectAllKids(_, _, _)
CollectAll(t, n) == t[n].tasks \o CollectAllKids(t, n, ChildSeq(t[n].children))
CollectAllKids(t, n, kids) ==
    IF kids = <<>> THEN <<>>
    ELSE CollectAll(t, Append(n, Head(kids))) \o CollectAllKids(t, n, Tail(kids))

collectAllTasks(t) == CollectAll(t, <<>>)

\* a collection that keeps every reference it meets
KeepEvery(refs) == refs

\* what the uniqueTasks set does to a walk: a reference is kept where it is met
\* for the first time and skipped wherever it is met again
FirstOccurrences(refs) ==
    LET firsts == {i \in 1..Len(refs) : \A j \in 1..(i - 1) : refs[j] # refs[i]}
    IN [k \in 1..Cardinality(firsts) |->
          refs[CHOOSE i \in firsts : Cardinality({j \in firsts : j < i}) = k - 1]]

\* a search without the empty-prefix guard: findNode("") is the root
searchPrefixUnguarded(t, prefix) ==
    LET node == findNode(t, toLowerCase(prefix))
    IN IF node = NullNode THEN <<>> ELSE FirstOccurrences(CollectAll(t, node))

\* TaskSearchIndex::collectTasks: the same walk as collectAllTasks, started at
\* node, with the uniqueTasks check at every reference
collectTasks(t, node) == FirstOccurrences(CollectAll(t, node))

\* TaskSearchIndex::searchPrefix
searchPrefix(t, prefix) ==
    IF prefix = <<>> THEN <<>>
    ELSE LET node == findNode(t, toLowerCase(prefix))
         IN IF node = NullNode THEN <<>> ELSE collectTasks(t, node)

\* a test on everything addTask indexes, the two labels included
MatchesIndexedText(task, lowerSubstring) ==
    \E k \in 1..Len(IndexedStrings(task)) : contains(IndexedStrings(task)[k], lowerSubstring)

\* the test of searchSubstring on one task: name, description, then the tags
SubstringMatches(task, lowerSubstring) ==
    \/ contains(toLowerCase(task.name), lowerSubstring)
    \/ contains(toLowerCase(task.description), lowerSubstring)
    \/ \E i \in 1..Len(task.tags) : contains(toLowerCase(task.tags[i]), lowerSubstring)

\* TaskSearchIndex::searchSubstring: every reference of the trie, each task tested
\* once (uniqueTasks), the matching ones kept in the order of the walk
searchSubstring(t, h, substring) ==
    IF substring = <<>> THEN <<>>
    ELSE SelectSeq(FirstOccurrences(collectAllTasks(t)),
                   LAMBDA a : SubstringMatches(h[a], toLowerCase(substring)))

\* the task Tasks::addTask builds from its arguments: the constructor, then
\* setDescription, then addTag for every tag in turn
RECURSIVE AddTags(_, _)
AddTags(task, tags) ==
    IF tags = <<>> THEN task ELSE AddTags(addTag(task, Head(tags)), Tail(tags))

MakeTask(id, name, description, status, priority, tags) ==
    AddTags([NewTask(id, name, status, priority) EXCEPT !.description = description], tags)

\* Task::toJson: the optional completed_at is written only when it has a value
toJson(task) ==
    LET j == [id |-> task.id, name |-> task.name, status |-> task.status,
              priority |-> task.priority, description |-> task.description,
              tags |-> task.tags]
    IN IF task.completed_at THEN j @@ [completed_at |-> TRUE] ELSE j

\* the data file: absent until the first save
NoFile == [exists |-> FALSE]

\* std::optional<TaskStats> without a value
NoStats == [has_value |-> FALSE]

(***************************************************************************)
(* History kept for the statement of the properties: per Task object,      *)
(*   "added"   addTask was called for it and since then neither removeTask *)
(*             for it nor clear;                                           *)
(*   "removed" removeTask was called for it after an addTask, and since    *)
(*             then neither addTask for it nor clear;                      *)
(*   "none"    otherwise.                                                  *)
(***************************************************************************)
NoHist == [a \in Addrs |-> "none"]
\* the last operation: its name, the Task object or id it was given, its query
\* and whether it succeeded
Op(op, a, q) == [op |-> op, task |-> a, query |-> q, ok |-> TRUE]
Failed(op, a, q) == [op |-> op, task |-> a, query |-> q, ok |-> FALSE]

(***************************************************************************)
(* Operations of TaskSearchIndex.                                          *)
(***************************************************************************)
addTask(t, task, a) == indexStrings(t, IndexedStrings(task), a)

removeTask(t, task, a) == removeStrings(t, IndexedStrings(task), a)

\* an addTask that counts a record only when no node lists it yet
IndexAddTaskOnce(a) ==
    /\ total_indexed_tasks_ < MaxIndexed
    /\ root_' = addTask(root_, heap[a], a)
    /\ total_indexed_tasks_' = IF \E p \in DOMAIN root_ : a \in Range(root_[p].tasks)
                               THEN total_indexed_tasks_ ELSE total_indexed_tasks_ + 1
    /\ hist' = [hist EXCEPT ![a] = "added"]
    /\ lastOp' = Op("addTask", a, <<>>)
    /\ result' = <<>>
    /\ UNCHANGED <<heap, storeVars>>

IndexAddTask(a) ==
    /\ total_indexed_tasks_ < MaxIndexed
    /\ root_' = addTask(root_, heap[a], a)
    /\ total_indexed_tasks_' = total_indexed_tasks_ + 1
    /\ hist' = [hist EXCEPT ![a] = "added"]
    /\ lastOp' = Op("addTask", a, <<>>)
    /\ result' = <<>>
    /\ UNCHANGED <<heap, storeVars>>

IndexRemoveTask(a) ==
    /\ root_' = removeTask(root_, heap[a], a)
    /\ total_indexed_tasks_' = IF total_indexed_tasks_ > 0 THEN total_indexed_tasks_ - 1
                               ELSE total_indexed_tasks_
    /\ hist' = [hist EXCEPT ![a] = IF @ = "none" THEN "none" ELSE "removed"]
    /\ lastOp' = Op("removeTask", a, <<>>)
    /\ result' = <<>>
    /\ UNCHANGED <<heap, storeVars>>

\* a clear that resets the counter and keeps the trie
IndexResetCounter ==
    /\ root_' = root_
    /\ total_indexed_tasks_' = 0
    /\ hist' = NoHist
    /\ lastOp' = Op("clear", 0, <<>>)
    /\ result' = <<>>
    /\ UNCHANGED <<heap, storeVars>>

IndexClear ==
    /\ root_' = EmptyTrie
    /\ total_indexed_tasks_' = 0
    /\ hist' = NoHist
    /\ lastOp' = Op("clear", 0, <<>>)
    /\ result' = <<>>
    /\ UNCHANGED <<heap, storeVars>>

SearchPrefix(q) ==
    /\ result' = searchPrefix(root_, q)
    /\ lastOp' = Op("searchPrefix", 0, q)
    /\ UNCHANGED <<heap, indexVars, storeVars, hist>>

SearchSubstring(q) ==
    /\ result' = searchSubstring(root_, heap, q)
    /\ lastOp' = Op("searchSubstring", 0, q)
    /\ UNCHANGED <<heap, indexVars, storeVars, hist>>

(***************************************************************************)
(* The index on its own, driven by a caller that owns the Task objects and *)
(* does not change them.  The objects are built as Tasks::addTask builds   *)
(* them.                                                                   *)
(***************************************************************************)
TaskInputs ==
    {MakeTask(0, <<"a", "B">>, <<>>, TODO, LOW, <<>>),
     MakeTask(0, <<"b">>, <<"x">>, COMPLETED, HIGH, << <<"A", "b">>, <<"A", "b">> >>)}

IndexInit ==
    /\ heap \in [Addrs -> TaskInputs]
    /\ root_ = EmptyTrie
    /\ total_indexed_tasks_ = 0
    /\ tasks = <<>>
    /\ nextId = 1
    /\ index_dirty_ = TRUE
    /\ stats_dirty_ = TRUE
    /\ file = NoFile
    /\ lastOp = Op("init", 0, <<>>)
    /\ result = <<>>
    /\ hist = NoHist
    /\ cached_stats_ = NoStats
    /\ save_future_ = "invalid"
    /\ save_threads = <<>>

IndexNext ==
    \/ \E a \in Addrs : IndexAddTask(a)
    \/ \E a \in Addrs : IndexRemoveTask(a)
    \/ IndexClear
    \/ \E q \in Queries : SearchPrefix(q)
    \/ \E q \in Queries : SearchSubstring(q)

IndexSpec == IndexInit /\ [][IndexNext]_vars

(***************************************************************************)
(* Properties of the index (IndexSpec).                                    *)
(***************************************************************************)
\* lowercase(p) is a non-empty prefix of s[i..] for some start offset i
IsPrefixOfSuffix(p, s) ==
    /\ p # <<>>
    /\ \E i \in 1..Len(s) :
          /\ i + Len(p) - 1 <= Len(s)
          /\ \A k \in 1..Len(p) : s[i + k - 1] = tolower(p[k])

\* the indexed strings of a record as the specification lists them
IndexedText(task) ==
    {toLowerCase(task.name)}
    \cup (IF task.description # <<>> THEN {toLowerCase(task.description)} ELSE {})
    \cup {toLowerCase(task.tags[i]) : i \in 1..Len(task.tags)}
    \cup {toLowerCase(getStatusString(task)), toLowerCase(getPriorityString(task))}

PrefixMatches(task, p) == \E s \in IndexedText(task) : IsPrefixOfSuffix(p, s)

\* the records that have at least one back-reference in the trie
Referenced(t) == UNION {Range(t[p].tasks) : p \in DOMAIN t}

C2_PrefixSoundness ==
    lastOp.op = "searchPrefix" =>
        \A a \in Range(result) : PrefixMatches(heap[a], lastOp.query)

\* a search for "X" returns one of two indexed records and leaves out the
\* other, which has "x" in none of its strings
C2_Witness ==
    /\ lastOp = Op("searchPrefix", 0, <<"X">>)
    /\ hist = [a \in Addrs |-> "added"]
    /\ \E a, b \in Addrs :
          /\ a \in Range(result)
          /\ b \notin Range(result)
          /\ ~PrefixMatches(heap[b], <<"X">>)

\* the test of the specification for a substring query: the lowercased name,
\* description or some tag contains lowercase(q)
ContainsText(task, q) ==
    LET low == toLowerCase(q)
        Has(str) == \E i \in 0..(Len(str) - Len(low)) :
                        \A k \in 1..Len(low) : tolower(str[i + k]) = low[k]
    IN \/ Has(task.name)
       \/ Has(task.description)
       \/ \E i \in 1..Len(task.tags) : Has(task.tags[i])

\* C3: substring correctness.  For every record that was added and not removed
\* and every non-empty query s, searchSubstring(s) includes the record if and
\* only if lowercase(s) is a substring of its lowercased name, description or
\* one of its tags; a match in the status or priority label alone does not
\* include it.
C3_SubstringCorrectness ==
    (lastOp.op = "searchSubstring" /\ lastOp.query # <<>>) =>
        \A a \in Addrs :
            hist[a] = "added" =>
                (a \in Range(result) <=> ContainsText(heap[a], lastOp.query))

\* a search for "o" with two records indexed, both with an "o" in their status
\* and priority labels and in no other text, returns nothing
C3_Witness ==
    /\ lastOp = Op("searchSubstring", 0, <<"o">>)
    /\ hist = [a \in Addrs |-> "added"]
    /\ \A a \in Addrs : PrefixMatches(heap[a], <<"o">>)
    /\ result = <<>>

SearchOps == {"searchPrefix", "searchSubstring"}

\* C4: removal.  After addTask(R) followed by removeTask(R), the fields of R
\* unchanged, no searchPrefix and no searchSubstring returns R, whatever the
\* query, and the removeTask leaves the counter exactly one less than it found
\* it, or at 0 if it found it at 0.
C4_Removal ==
    /\ [](lastOp.op \in SearchOps =>
             \A a \in Addrs : hist[a] = "removed" => a \notin Range(result))
    /\ [][(lastOp'.op = "removeTask" /\ hist[lastOp'.task] = "added") =>
             total_indexed_tasks_' = IF total_indexed_tasks_ > 0
                                     THEN total_indexed_tasks_ - 1 ELSE 0]_vars

\* a search for "B" after one of two objects with the same content was added
\* and removed: the search returns the other one only
C4_Witness ==
    /\ lastOp = Op("searchPrefix", 0, <<"B">>)
    /\ \E a, b \in Addrs :
          /\ heap[a] = heap[b]
          /\ hist[a] = "removed"
          /\ hist[b] = "added"
          /\ result = <<b>>

\* C7: getTotalIndexedTasks() is the number of tasks in the index: in every
\* state reached by addTask, removeTask and clear, the counter equals the
\* number of distinct records with at least one back-reference in the trie.
C7_CounterIsIndexedRecords ==
    total_indexed_tasks_ = Cardinality(Referenced(root_))

NoDuplicateRefs(t) ==
    \A p \in DOMAIN t :
        \A i, j \in 1..Len(t[p].tasks) : t[p].tasks[i] = t[p].tasks[j] => i = j

\* C8: idempotent add.  An addTask(R) for a record that is already added, with
\* the same content, leaves every node's reference list and the result of
\* every searchPrefix and searchSubstring as they were; no node lists a record
\* twice.
C8_IdempotentAdd ==
    /\ []NoDuplicateRefs(root_)
    /\ [][(lastOp'.op = "addTask" /\ hist[lastOp'.task] = "added") =>
             /\ root_' = root_
             /\ \A q \in Queries :
                   /\ searchPrefix(root_', q) = searchPrefix(root_, q)
                   /\ searchSubstring(root_', heap', q) = searchSubstring(root_, heap, q)]_vars

\* the second addTask of the same record has been made: the counter is at 2
\* and one record is referenced
C8_Witness ==
    /\ lastOp.op = "addTask"
    /\ total_indexed_tasks_ = 2
    /\ Referenced(root_) = {lastOp.task}

\* C9: clear.  After clear(), from any reachable state of the index, the
\* counter is 0 and every searchPrefix and searchSubstring returns empty; the
\* state is the one clear() produces from every state, so that a repeated
\* clear() gives the same state.
C9_Clear ==
    lastOp.op = "clear" =>
        /\ total_indexed_tasks_ = 0
        /\ \A q \in Queries :
              /\ searchPrefix(root_, q) = <<>>
              /\ searchSubstring(root_, heap, q) = <<>>
        /\ root_ = EmptyTrie

\* a clear() has been made: the trie is the root alone and the counter is 0
C9_Witness ==
    /\ lastOp.op = "clear"
    /\ total_indexed_tasks_ = 0
    /\ DOMAIN root_ = {<<>>}

\* C10: empty-query guard.  searchPrefix("") and searchSubstring("") return an
\* empty result in every state of the index, however many records it holds.
C10_EmptyQueryGuard ==
    (lastOp.op \in SearchOps /\ lastOp.query = <<>>) => result = <<>>

\* an empty substring query on an index that holds two records
C10_Witness ==
    /\ lastOp = Op("searchSubstring", 0, <<>>)
    /\ Cardinality(Referenced(root_)) = 2
    /\ result = <<>>

(***************************************************************************)
(* The record store (Tasks).  tasks is the vector of owning pointers, as    *)
(* the sequence of the addresses they hold; an address that holds no Task   *)
(* is free, and a new Task may be given any free address, one that an       *)
(* erased Task held included.                                               *)
(***************************************************************************)
FreeAddrs == {a \in Addrs : a \notin Range(tasks)}

\* position in tasks of the first task whose id is id, 0 if there is none
\* (std::ranges::find_if in findTask and removeTask)
FindPos(id) ==
    LET hits == {i \in 1..Len(tasks) : heap[tasks[i]].id = id}
    IN IF hits = {} THEN 0 ELSE CHOOSE i \in hits : \A j \in hits : i <= j

\* Tasks::saveToFile: the id counter and every task, in the order of tasks
saveToFile(n, ts, h) ==
    [exists |-> TRUE, nextId |-> n, tasks |-> [i \in 1..Len(ts) |-> toJson(h[ts[i]])]]

\* a loop that reaches the last task only
AddLast(t, h, ts) == IF ts = <<>> THEN t ELSE addTask(t, h[ts[Len(ts)]], ts[Len(ts)])

\* the loop of rebuildSearchIndex: addTask for every task in the order of tasks
RECURSIVE AddAll(_, _, _)
AddAll(t, h, ts) ==
    IF ts = <<>> THEN t ELSE AddAll(addTask(t, h[Head(ts)], Head(ts)), h, Tail(ts))

\* a rebuild that adds the tasks to the index as it is, without the clear
rebuildWithoutClear ==
    IF ~index_dirty_ THEN [root |-> root_, total |-> total_indexed_tasks_]
    ELSE [root |-> AddAll(root_, heap, tasks),
          total |-> total_indexed_tasks_ + Len(tasks)]

\* Tasks::rebuildSearchIndex: the index it leaves (the flag is cleared by the caller
\* of this operator, which is the last statement of the function)
rebuildSearchIndex ==
    IF ~index_dirty_ THEN [root |-> root_, total |-> total_indexed_tasks_]
    ELSE LET cleared == [root |-> EmptyTrie, total |-> 0]
         IN [root |-> AddAll(cleared.root, heap, tasks),
             total |-> cleared.total + Len(tasks)]

\* std::ranges::sort by id: the orders the sort may leave, which are the
\* arrangements of refs (no address twice) in which no later id is smaller;
\* tasks with equal ids may come out in either order
SortById(h, refs) ==
    {s \in [1..Len(refs) -> Range(refs)] :
        /\ Range(s) = Range(refs)
        /\ \A i, j \in 1..Len(refs) : i < j => ~(h[s[j]].id < h[s[i]].id)}

\* std::unique: of every run of equal neighbours the first is kept
Unique(refs) ==
    LET keep == {i \in 1..Len(refs) : i = 1 \/ refs[i] # refs[i - 1]}
    IN [k \in 1..Cardinality(keep) |->
          refs[CHOOSE i \in keep : Cardinality({j \in keep : j < i}) = k - 1]]

\* Tasks::advancedSearch after its rebuild: the references of searchPrefix that
\* are the address of a task of the store, sorted by id, neighbours made unique
\* (the set of the vectors it may return)
advancedSearch(t, h, ts, query) ==
    LET taskRefs == searchPrefix(t, query)
        results == SelectSeq(taskRefs, LAMBDA a : a \in Range(ts))
    IN {Unique(sorted) : sorted \in SortById(h, results)}

\* Task::matches
matches(task, query) ==
    LET query_lower == toLowerCase(query)
    IN \/ contains(toLowerCase(task.name), query_lower)
       \/ contains(toLowerCase(task.description), query_lower)
       \/ \E i \in 1..Len(task.tags) : contains(toLowerCase(task.tags[i]), query_lower)

\* Tasks::searchTasks
searchTasks(h, ts, query) == SelectSeq(ts, LAMBDA a : matches(h[a], query))

\* the common end of a successful mutation: both caches invalidated, the file saved
Mutated(op, id) ==
    /\ index_dirty_' = TRUE
    /\ stats_dirty_' = TRUE
    /\ file' = saveToFile(nextId', tasks', heap')
    /\ lastOp' = Op(op, 0, <<>>)
    /\ result' = <<>>
    /\ UNCHANGED <<indexVars, hist, asyncVars>>

\* an operation that returns an error: nothing of the store changes
Rejected(op, id) ==
    /\ lastOp' = Failed(op, 0, <<>>)
    /\ result' = <<>>
    /\ UNCHANGED <<heap, indexVars, storeVars, hist>>

\* an addTask that numbers the new task by the size of the collection
AddTaskNumberedBySize(name, status, priority) ==
    /\ nextId <= MaxId
    /\ IF name = <<>> THEN Rejected("addTask", nextId)
       ELSE \E a \in FreeAddrs :
               /\ heap' = [heap EXCEPT ![a] = NewTask(Len(tasks) + 1, name, status, priority)]
               /\ tasks' = Append(tasks, a)
               /\ nextId' = nextId + 1
               /\ Mutated("addTask", nextId)

\* Tasks::addTask(name, status, priority).  An empty name makes the Task
\* constructor throw after nextId++, and the handler takes the increment back.
AddTask(name, status, priority) ==
    /\ nextId <= MaxId
    /\ IF name = <<>> THEN Rejected("addTask", nextId)
       ELSE \E a \in FreeAddrs :
               /\ heap' = [heap EXCEPT ![a] = NewTask(nextId, name, status, priority)]
               /\ tasks' = Append(tasks, a)
               /\ nextId' = nextId + 1
               /\ Mutated("addTask", nextId)

\* Tasks::addTask(name, description, status, priority, dueDate, tags), no due date
AddTaskFull(name, description, status, priority, tags) ==
    /\ nextId <= MaxId
    /\ IF name = <<>> THEN Rejected("addTask", nextId)
       ELSE \E a \in FreeAddrs :
               /\ heap' = [heap EXCEPT ![a] =
                              MakeTask(nextId, name, description, status, priority, tags)]
               /\ tasks' = Append(tasks, a)
               /\ nextId' = nextId + 1
               /\ Mutated("addTask", nextId)

\* a removeTask that erases the task and leaves the index flag as it is
RemoveTaskKeepFlag(id) ==
    LET i == FindPos(id)
    IN IF i = 0 THEN Rejected("removeTask", id)
       ELSE /\ tasks' = SubSeq(tasks, 1, i - 1) \o SubSeq(tasks, i + 1, Len(tasks))
            /\ heap' = [heap EXCEPT ![tasks[i]] = NoTask]
            /\ index_dirty_' = index_dirty_
            /\ stats_dirty_' = TRUE
            /\ file' = saveToFile(nextId, tasks', heap')
            /\ lastOp' = Op("removeTask", 0, <<>>)
            /\ result' = <<>>
            /\ UNCHANGED <<nextId, indexVars, hist, asyncVars>>

\* Tasks::removeTask(id): erase destroys the Task and frees its address
RemoveTask(id) ==
    LET i == FindPos(id)
    IN IF i = 0 THEN Rejected("removeTask", id)
       ELSE /\ tasks' = SubSeq(tasks, 1, i - 1) \o SubSeq(tasks, i + 1, Len(tasks))
            /\ heap' = [heap EXCEPT ![tasks[i]] = NoTask]
            /\ UNCHANGED nextId
            /\ Mutated("removeTask", id)

\* Tasks::removeAllTasks
RemoveAllTasks ==
    IF tasks = <<>> THEN Rejected("removeAllTasks", 0)
    ELSE /\ tasks' = <<>>
         /\ heap' = [a \in Addrs |-> NoTask]
         /\ UNCHANGED nextId
         /\ Mutated("removeAllTasks", 0)

\* an updateTask that changes the task and leaves the index flag as it is
UpdateTaskKeepFlag(id, name, status, priority) ==
    LET i == FindPos(id)
    IN IF i = 0 \/ name = <<>> THEN Rejected("updateTask", id)
       ELSE /\ heap' = [heap EXCEPT ![tasks[i]] =
                           [setStatus([@ EXCEPT !.name = name], status)
                               EXCEPT !.priority = priority]]
            /\ index_dirty_' = index_dirty_
            /\ stats_dirty_' = TRUE
            /\ file' = saveToFile(nextId, tasks, heap')
            /\ lastOp' = Op("updateTask", 0, <<>>)
            /\ result' = <<>>
            /\ UNCHANGED <<tasks, nextId, indexVars, hist, asyncVars>>

\* an updateTask that sets status and priority before the name is tested
UpdateTaskStatusFirst(id, name, status, priority) ==
    LET i == FindPos(id)
    IN IF i = 0 THEN Rejected("updateTask", id)
       ELSE IF name = <<>>
       THEN /\ heap' = [heap EXCEPT ![tasks[i]] =
                           [setStatus(@, status) EXCEPT !.priority = priority]]
            /\ lastOp' = Failed("updateTask", 0, <<>>)
            /\ result' = <<>>
            /\ UNCHANGED <<indexVars, storeVars, hist>>
       ELSE /\ heap' = [heap EXCEPT ![tasks[i]] =
                           [setStatus([@ EXCEPT !.name = name], status)
                               EXCEPT !.priority = priority]]
            /\ UNCHANGED <<tasks, nextId>>
            /\ Mutated("updateTask", id)

\* Tasks::updateTask(id, name, status, priority): setName throws on an empty
\* name before anything is changed
UpdateTask(id, name, status, priority) ==
    LET i == FindPos(id)
    IN IF i = 0 \/ name = <<>> THEN Rejected("updateTask", id)
       ELSE /\ heap' = [heap EXCEPT ![tasks[i]] =
                           [setStatus([@ EXCEPT !.name = name], status)
                               EXCEPT !.priority = priority]]
            /\ UNCHANGED <<tasks, nextId>>
            /\ Mutated("updateTask", id)

\* Tasks::advancedSearch(query): an empty query returns at once; otherwise the
\* index is rebuilt if the flag is set, the flag is cleared, and the index is asked
AdvancedSearch(query) ==
    IF query = <<>>
    THEN /\ lastOp' = Op("advancedSearch", 0, query)
         /\ result' = <<>>
         /\ UNCHANGED <<heap, indexVars, storeVars, hist>>
    ELSE /\ LET index == rebuildSearchIndex
            IN /\ root_' = index.root
               /\ total_indexed_tasks_' = index.total
         /\ index_dirty_' = FALSE
         /\ result' \in advancedSearch(root_', heap, tasks, query)
         /\ lastOp' = Op("advancedSearch", 0, query)
         /\ UNCHANGED <<heap, tasks, nextId, stats_dirty_, file, hist, asyncVars>>

\* Tasks::searchTasks(query)
SearchTasks(query) ==
    /\ result' = searchTasks(heap, tasks, query)
    /\ lastOp' = Op("searchTasks", 0, query)
    /\ UNCHANGED <<heap, indexVars, storeVars, hist>>

\* inputs of the store's operations
StoreNames == {<<>>, <<"a", "B">>}
NewNames == {<<>>, <<"b">>}
StoreQueries == {<<>>, <<"B">>}
Ids == 1..MaxId

\* the store after Tasks::Tasks on a data file that does not exist
StoreInit ==
    /\ heap = [a \in Addrs |-> NoTask]
    /\ root_ = EmptyTrie
    /\ total_indexed_tasks_ = 0
    /\ tasks = <<>>
    /\ nextId = 1
    /\ index_dirty_ = TRUE
    /\ stats_dirty_ = TRUE
    /\ file = NoFile
    /\ lastOp = Op("init", 0, <<>>)
    /\ result = <<>>
    /\ hist = NoHist
    /\ cached_stats_ = NoStats
    /\ save_future_ = "invalid"
    /\ save_threads = <<>>

StoreNext ==
    \/ \E name \in StoreNames : AddTask(name, TODO, LOW)
    \/ AddTaskFull(<<"b">>, <<"x">>, TODO, HIGH, << <<"A", "b">>, <<"A", "b">> >>)
    \/ \E id \in Ids : RemoveTask(id)
    \/ RemoveAllTasks
    \/ \E id \in Ids, name \in NewNames : UpdateTask(id, name, TODO, HIGH)
    \/ \E query \in StoreQueries : AdvancedSearch(query)
    \/ SearchTasks(<<"B">>)

StoreSpec == StoreInit /\ [][StoreNext]_vars

(***************************************************************************)
(* Properties of the record store (StoreSpec).                             *)
(***************************************************************************)
\* C5: rebuild before search.  After any sequence of addTask, removeTask,
\* removeAllTasks, updateTask and advancedSearch, the index query of an
\* advancedSearch with a non-empty query runs with the flag CLEAN and with
\* every back-reference of the trie pointing to a record of the store's
\* collection; no search returns a reference to a removed record.  (The
\* query is the last step of advancedSearch, so the state it runs in is the
\* state advancedSearch leaves.)
C5_RebuildBeforeSearch ==
    /\ (lastOp.op = "advancedSearch" /\ lastOp.query # <<>>) =>
          /\ ~index_dirty_
          /\ Referenced(root_) \subseteq Range(tasks)
          /\ \A a \in Referenced(root_) : heap[a] # NoTask
    /\ lastOp.op \in {"advancedSearch", "searchTasks"} =>
          \A a \in Range(result) : a \in Range(tasks) /\ heap[a] # NoTask

\* an advancedSearch after two tasks were added and one of them was removed
\* returns the remaining one
C5_Witness ==
    /\ lastOp = Op("advancedSearch", 0, <<"B">>)
    /\ nextId = 3
    /\ Len(tasks) = 1
    /\ result = tasks

Mutators == {"addTask", "removeTask", "removeAllTasks", "updateTask"}

\* C6: dirty-flag state machine.  The flag starts DIRTY; every successful
\* addTask, removeTask, removeAllTasks and updateTask leaves it DIRTY; it goes
\* from DIRTY to CLEAN only in a step that completes rebuildSearchIndex (an
\* advancedSearch with a non-empty query); no other operation changes it.
C6_DirtyFlagStateMachine ==
    /\ index_dirty_ = TRUE
    /\ [][(lastOp'.op \in Mutators /\ lastOp'.ok) => index_dirty_']_vars
    /\ [][(index_dirty_ /\ ~index_dirty_') =>
             (lastOp'.op = "advancedSearch" /\ lastOp'.query # <<>>)]_vars
    /\ [][(index_dirty_' # index_dirty_) =>
             \/ lastOp'.op \in Mutators /\ lastOp'.ok
             \/ lastOp'.op = "advancedSearch" /\ lastOp'.query # <<>>]_vars

\* an updateTask has succeeded on a store whose index had been rebuilt: the
\* flag is DIRTY again
C6_Witness ==
    /\ lastOp = Op("updateTask", 0, <<>>)
    /\ total_indexed_tasks_ > 0
    /\ index_dirty_ = TRUE

(***************************************************************************)
(* Further properties of the index (IndexSpec).                            *)
(***************************************************************************)
\* the same letter in the other case
OtherCase(c) ==
    IF \E i \in 1..Len(UpperLetters) : UpperLetters[i] = c
    THEN LowerLetters[CHOOSE i \in 1..Len(UpperLetters) : UpperLetters[i] = c]
    ELSE IF \E i \in 1..Len(LowerLetters) : LowerLetters[i] = c
    THEN UpperLetters[CHOOSE i \in 1..Len(LowerLetters) : LowerLetters[i] = c]
    ELSE c

\* the queries that differ from q in letter case only
CaseVariants(q) ==
    {v \in [DOMAIN q -> UNION {{q[i], OtherCase(q[i])} : i \in DOMAIN q}] :
        \A i \in DOMAIN q : v[i] \in {q[i], OtherCase(q[i])}}

\* a task with its name, description and tags in lower case
LowerCaseFields(task) ==
    LET Low(str) == [i \in 1..Len(str) |-> tolower(str[i])]
    IN [task EXCEPT !.name = Low(@), !.description = Low(@),
                    !.tags = [i \in 1..Len(@) |-> Low(@[i])]]

\* C11: case insensitivity.  In every state of the index, queries that differ
\* in letter case only get the same set of records from searchPrefix, and
\* likewise from searchSubstring; the letter case of the indexed fields does
\* not affect the result: addTask leaves the trie it would leave for the same
\* record with lowercase fields, and searchSubstring returns what it would
\* return if the fields of every record were lowercase.
C11_CaseInsensitivity ==
    /\ [](lastOp.op = "searchPrefix" =>
             \A v \in CaseVariants(lastOp.query) :
                 Range(searchPrefix(root_, v)) = Range(result))
    /\ [](lastOp.op = "searchSubstring" =>
             /\ \A v \in CaseVariants(lastOp.query) :
                   Range(searchSubstring(root_, heap, v)) = Range(result)
             /\ searchSubstring(root_, [a \in Addrs |-> LowerCaseFields(heap[a])],
                                lastOp.query) = result)
    /\ [][lastOp'.op = "addTask" =>
             root_' = addTask(root_, LowerCaseFields(heap[lastOp'.task]), lastOp'.task)]_vars

\* the query "X" finds a record by its description "x"
C11_Witness ==
    /\ lastOp = Op("searchSubstring", 0, <<"X">>)
    /\ \E a \in Range(result) : heap[a].description = <<"x">>

\* p, lowercased, is a non-empty prefix of a word of s: of s[i..] for an offset
\* i at the start of s or after a space
StartsWord(p, s) ==
    /\ p # <<>>
    /\ \E i \in 1..Len(s) :
          /\ i = 1 \/ s[i - 1] = " "
          /\ i + Len(p) - 1 <= Len(s)
          /\ \A k \in 1..Len(p) : s[i + k - 1] = tolower(p[k])

\* C12: searchPrefix(p) returns only tasks that contain a word starting with
\* p; a query that occurs only in the middle of a word is not returned by
\* searchPrefix.
C12_PrefixOnlyAtWordStart ==
    lastOp.op = "searchPrefix" =>
        \A a \in Range(result) : \E s \in IndexedText(heap[a]) : StartsWord(lastOp.query, s)

\* C14: removeTask(R) for a record R that was never added signals no error and
\* leaves the whole trie (the node set and every node's back-reference list)
\* unchanged, so every searchPrefix and searchSubstring result is the same as
\* before the call, in any index state.
C14_RemoveNeverAdded ==
    [][(lastOp'.op = "removeTask" /\ hist[lastOp'.task] = "none") =>
          /\ lastOp'.ok
          /\ root_' = root_
          /\ \A q \in Queries :
                /\ searchPrefix(root_', q) = searchPrefix(root_, q)
                /\ searchSubstring(root_', heap', q) = searchSubstring(root_, heap, q)]_vars

C14_Witness ==
    /\ lastOp.op = "removeTask"
    /\ hist[lastOp.task] = "none"
    /\ \E b \in Addrs :
          /\ hist[b] = "added"
          /\ heap[b] = heap[lastOp.task]
          /\ Referenced(root_) = {b}

C18_ResultDeduplication ==
    lastOp.op \in SearchOps => \A i, j \in 1..Len(result) : result[i] = result[j] => i = j

\* a searchPrefix("o") that returns a record listed by more than one node below
\* the node "o" (the ends of "o", of "o-do" and of "ow")
C18_Witness ==
    /\ lastOp = Op("searchPrefix", 0, <<"o">>)
    /\ Len(result) = 2
    /\ \A a \in Range(result) :
          Cardinality({p \in DOMAIN root_ :
                          /\ p # <<>>
                          /\ p[1] = "o"
                          /\ a \in Range(root_[p].tasks)}) >= 3

\* p is one of the strings at whose end indexString leaves a reference: a
\* non-empty suffix of s
IsSuffix(p, s) == p # <<>> /\ Len(p) <= Len(s) /\ SubSeq(s, Len(s) - Len(p) + 1, Len(s)) = p

\* the index holds exactly the tasks of the store: its nodes are the root and the
\* prefixes of the suffixes of their indexed strings, and a node lists exactly the
\* tasks one of whose indexed strings ends with the node's path
HoldsExactly(t, h, ts) ==
    /\ \A p \in DOMAIN t :
          p = <<>> \/ \E a \in Range(ts) : PrefixMatches(h[a], p)
    /\ \A a \in Range(ts) : \A s \in IndexedText(h[a]) : \A i \in 1..Len(s) :
          SubSeq(s, i, Len(s)) \in DOMAIN t
    /\ \A p \in DOMAIN t :
          Range(t[p].tasks) = {a \in Range(ts) : \E s \in IndexedText(h[a]) : IsSuffix(p, s)}
    /\ NoDuplicateRefs(t)

\* C16 (StoreSpec): when rebuildSearchIndex runs with the flag DIRTY, the index
\* it leaves equals a fresh empty index to which addTask was applied once for
\* every record currently in the store, whatever the index held before, and the
\* counter equals the number of records in the store; when the flag is CLEAN it
\* changes neither the trie nor the counter.
C16_RebuildResult ==
    [][(lastOp'.op = "advancedSearch" /\ lastOp'.query # <<>>) =>
          IF index_dirty_
          THEN /\ root_' = AddAll(EmptyTrie, heap', tasks')
               /\ HoldsExactly(root_', heap', tasks')
               /\ total_indexed_tasks_' = Len(tasks')
          ELSE UNCHANGED indexVars]_vars

C16_Witness ==
    /\ lastOp = Op("advancedSearch", 0, <<"B">>)
    /\ ~index_dirty_
    /\ Len(tasks) = 2
    /\ total_indexed_tasks_ = 2
    /\ \E a \in Range(tasks) : heap[a].description = <<"x">>
    /\ \E a \in Range(tasks) : heap[a].priority = HIGH /\ heap[a].description = <<>>

\* the number of times address a stands in refs
CountRef(refs, a) == Cardinality({i \in 1..Len(refs) : refs[i] = a})

C22_NodeInvariants ==
    /\ \A p \in DOMAIN root_ : \A a \in Addrs : CountRef(root_[p].tasks, a) <= 1
    /\ <<>> \in DOMAIN root_
    /\ root_[<<>>].tasks = <<>>

\* a removeTask whose walk along the description "x" found no edge at the root
\* and erased there, in an index that lists another record
C22_Witness ==
    /\ lastOp.op = "removeTask"
    /\ hist[lastOp.task] = "none"
    /\ heap[lastOp.task].description = <<"x">>
    /\ <<"x">> \notin DOMAIN root_
    /\ \E b \in Addrs : hist[b] = "added" /\ Referenced(root_) = {b}

\* refs is what is left of old after some of its references were erased
Shrunk(refs, old) == \E keep \in SUBSET Range(old) : refs = SelectSeq(old, LAMBDA x : x \in keep)

\* C23 (IndexSpec): no pruning.  removeTask never deletes a trie node: the set of
\* root-to-node paths is the same before and after every removeTask, only
\* back-reference lists shrink; searchPrefix, searchSubstring and removeTask
\* never create a node; only clear reduces the node set.
C23_NoPruning ==
    /\ [][lastOp'.op = "removeTask" =>
             /\ DOMAIN root_' = DOMAIN root_
             /\ \A p \in DOMAIN root_ :
                   /\ root_'[p].children = root_[p].children
                   /\ Shrunk(root_'[p].tasks, root_[p].tasks)]_vars
    /\ [][lastOp'.op \in SearchOps => root_' = root_]_vars
    /\ [][~(DOMAIN root_ \subseteq DOMAIN root_') => lastOp'.op = "clear"]_vars

\* the last record was removed: no node lists anything, the nodes are all there
C23_Witness ==
    /\ lastOp.op = "removeTask"
    /\ \E a \in Addrs : hist[a] = "removed"
    /\ Referenced(root_) = {}
    /\ Cardinality(DOMAIN root_) > 10

\* the vectors advancedSearch(q) may return when it is called in this state
AdvancedResults(q) == advancedSearch(rebuildSearchIndex.root, heap, tasks, q)

\* q matches the task through its status label or its priority label
MatchesLabel(task, q) ==
    \/ contains(toLowerCase(getStatusString(task)), toLowerCase(q))
    \/ contains(toLowerCase(getPriorityString(task)), toLowerCase(q))

RefinementQueries == {<<"B">>, <<"X">>, <<"o">>, <<"H", "i">>}

\* C24 (StoreSpec): indexed search refines linear search.  For every non-empty
\* query q and every store state reached through addTask, removeTask,
\* removeAllTasks and updateTask, every task returned by searchTasks(q) is also
\* returned by advancedSearch(q), and a task returned by advancedSearch(q) but
\* not by searchTasks(q) matches q only through its status or priority label.
\* Stated in the state a searchTasks call leaves (it changes nothing of the
\* store and can be made in every state), for the query of the call and for
\* every query of RefinementQueries.
C24_IndexedRefinesLinear ==
    lastOp.op = "searchTasks" =>
        LET rebuilt == rebuildSearchIndex.root
        IN /\ result = searchTasks(heap, tasks, lastOp.query)
           /\ \A q \in RefinementQueries :
                 \A indexed \in advancedSearch(rebuilt, heap, tasks, q) :
                    LET linear == searchTasks(heap, tasks, q)
                    IN /\ Range(linear) \subseteq Range(indexed)
                       /\ \A a \in Range(indexed) \ Range(linear) :
                             MatchesLabel(heap[a], q) /\ ~matches(heap[a], q)

\* two tasks, one of them updated: "B" and "X" are found by both searches, "Hi" by
\* the indexed search alone, through the label High
C24_Witness ==
    /\ lastOp = Op("searchTasks", 0, <<"B">>)
    /\ Len(tasks) = 2
    /\ Len(result) = 2
    /\ searchTasks(heap, tasks, <<"H", "i">>) = <<>>
    /\ \E r \in AdvancedResults(<<"H", "i">>) : Len(r) >= 1
    /\ \E r \in AdvancedResults(<<"X">>) : r = searchTasks(heap, tasks, <<"X">>) /\ Len(r) = 1
    /\ \E a \in Range(tasks) : heap[a].priority = HIGH /\ heap[a].description = <<>>

\* C25 (StoreSpec): failed store operations change nothing.  Every Tasks
\* operation that returns an error result (addTask with an empty name,
\* removeTask with an unknown id, updateTask with an unknown id or an empty
\* name, removeAllTasks on an empty store) leaves the collection, every task's
\* fields, nextId, the index dirty flag and the statistics dirty flag exactly
\* as they were.
C25_FailedOperationsChangeNothing ==
    [][(lastOp'.op \in Mutators /\ ~lastOp'.ok) =>
          /\ tasks' = tasks
          /\ heap' = heap
          /\ nextId' = nextId
          /\ index_dirty_' = index_dirty_
          /\ stats_dirty_' = stats_dirty_
          /\ file' = file]_vars

\* an updateTask has failed on a store that holds the tasks 1 and 2, so on an
\* empty name, with the index flag CLEAN
C25_Witness ==
    /\ lastOp = Failed("updateTask", 0, <<>>)
    /\ Len(tasks) = 2
    /\ index_dirty_ = FALSE
    /\ \E a \in Range(tasks) : heap[a].priority = LOW

\* C26 (StoreSpec): identifier uniqueness.  Starting from an empty store, in
\* every state reachable by addTask, removeTask, removeAllTasks and updateTask
\* (failed calls included), all tasks in the collection have pairwise distinct
\* ids, every id in the collection is less than nextId, and an id that was once
\* assigned is never assigned to a later task, also after the task holding it
\* was removed: nextId never goes down, and a task that enters the collection
\* gets an id that is not below the nextId before the call.
C26_IdentifierUniqueness ==
    /\ [](\A i, j \in 1..Len(tasks) : heap[tasks[i]].id = heap[tasks[j]].id => i = j)
    /\ [](\A a \in Range(tasks) : heap[a].id < nextId)
    /\ [][nextId' >= nextId]_vars
    /\ [][\A a \in Range(tasks') \ Range(tasks) : heap'[a].id >= nextId]_vars
    /\ [][\A a \in Range(tasks') \cap Range(tasks) : heap'[a].id = heap[a].id]_vars

\* task 1 was removed and the next task got id 2
C26_Witness ==
    /\ lastOp = Op("addTask", 0, <<>>)
    /\ nextId = 3
    /\ Len(tasks) = 1
    /\ heap[tasks[1]].id = 2

(***************************************************************************)
(* The index with a caller that also changes the Task objects it has added *)
(* (the index holds references to const Task, the owner holds the objects). *)
(***************************************************************************)
\* Task::setName: an empty name throws and changes nothing
setName(task, name) == IF name = <<>> THEN task ELSE [task EXCEPT !.name = name]

\* Task::setPriority
setPriority(task, priority) == [task EXCEPT !.priority = priority]

\* the owner changes the object at address a; the index is not told
Edited(op, a, task) ==
    /\ heap' = [heap EXCEPT ![a] = task]
    /\ lastOp' = Op(op, a, <<>>)
    /\ result' = <<>>
    /\ UNCHANGED <<indexVars, storeVars, hist>>

TaskSetName(a, name) == Edited("setName", a, setName(heap[a], name))

TaskAddTag(a, tag) == Edited("addTag", a, addTag(heap[a], tag))

TaskSetPriority(a, priority) == Edited("setPriority", a, setPriority(heap[a], priority))

EditInit ==
    /\ IndexInit
    /\ \A a \in Addrs : heap[a] = MakeTask(0, <<"a", "B">>, <<>>, TODO, LOW, <<>>)

EditNext ==
    \/ \E a \in Addrs : IndexAddTask(a)
    \/ \E a \in Addrs : IndexRemoveTask(a)
    \/ IndexClear
    \/ SearchPrefix(<<"B">>)
    \/ TaskSetName(1, <<"b">>)
    \/ TaskAddTag(1, <<"A", "b">>)
    \/ TaskSetPriority(1, HIGH)

EditSpec == EditInit /\ [][EditNext]_vars

\* C20 (EditSpec): removal independence.  removeTask(R) changes no
\* back-reference of any other record: for every record R' other than R and
\* every query q, R' is in searchPrefix(q) (and in searchSubstring(q)) after
\* removeTask(R) if and only if it was before, also when R and R' share indexed
\* strings and trie nodes and when R is only partially indexed so that a walk
\* stops early at a missing edge.
C20_RemovalIndependence ==
    [][lastOp'.op = "removeTask" =>
          \A b \in Addrs \ {lastOp'.task} :
              /\ \A p \in DOMAIN root_ :
                    p \in DOMAIN root_' /\
                    (b \in Range(root_'[p].tasks) <=> b \in Range(root_[p].tasks))
              /\ \A q \in Queries :
                    /\ b \in Range(searchPrefix(root_', q)) <=>
                          b \in Range(searchPrefix(root_, q))
                    /\ b \in Range(searchSubstring(root_', heap', q)) <=>
                          b \in Range(searchSubstring(root_, heap, q))]_vars

\* removeTask(R) has run on a record whose name and tags were changed after its
\* addTask, so that its walks are not the ones addTask made: R is still listed
\* somewhere, and R', listed at the node a-b that the walk along R's tag visits,
\* is still listed there and still found
C20_Witness ==
    /\ lastOp.op = "removeTask"
    /\ heap[lastOp.task].name = <<"b">>
    /\ heap[lastOp.task].tags # <<>>
    /\ lastOp.task \in Referenced(root_)
    /\ \E b \in Addrs \ {lastOp.task} :
          /\ hist[b] = "added"
          /\ heap[b].name = <<"a", "B">>
          /\ <<"a", "b">> \in DOMAIN root_
          /\ b \in Range(root_[<<"a", "b">>].tasks)
          /\ b \in Range(searchPrefix(root_, <<"B">>))

\* C13: removeTask(R) removes R from all trie nodes where it was indexed: after
\* it returns no node holds a back-reference to R, for any sequence of earlier
\* addTask(R) calls, also when the fields of R were changed between the
\* addTask and the removeTask.
C13_RemoveLeavesNoReference ==
    lastOp.op = "removeTask" => lastOp.task \notin Referenced(root_)

(***************************************************************************)
(* The store with its data file: background saves and a restart of the     *)
(* program, which constructs a new Tasks from the file.                     *)
(***************************************************************************)
\* Task::fromJson: the constructor on the four required fields, then the
\* optional fields that the object holds
fromJson(j) ==
    [NewTask(j.id, j.name, j.status, j.priority) EXCEPT
        !.completed_at = IF "completed_at" \in DOMAIN j THEN TRUE ELSE @,
        !.description = IF "description" \in DOMAIN j THEN j.description ELSE @,
        !.tags = IF "tags" \in DOMAIN j THEN j.tags ELSE @]

\* the document the background thread of saveAsync writes: the literal 1 as
\* nextId and the copies of the tasks
saveAsync(ts, h) ==
    [exists |-> TRUE, nextId |-> 1, tasks |-> [i \in 1..Len(ts) |-> toJson(h[ts[i]])]]

\* Tasks::saveAsync() followed by Tasks::waitForSave(): no save is in flight at
\* the call, and the file is written when waitForSave returns
SaveAsync ==
    /\ file' = saveAsync(tasks, heap)
    /\ lastOp' = Op("saveAsync", 0, <<>>)
    /\ result' = <<>>
    /\ UNCHANGED <<heap, indexVars, tasks, nextId, index_dirty_, stats_dirty_, hist, asyncVars>>

\* the program ends and is started again: Tasks::Tasks and loadFromFile build a
\* new store from the data file, every task a new object
Restart ==
    /\ LET loaded == IF file.exists THEN [i \in 1..Len(file.tasks) |-> fromJson(file.tasks[i])]
                     ELSE <<>>
       IN \E ts \in {s \in [1..Len(loaded) -> Addrs] :
                       \A i, j \in 1..Len(loaded) : s[i] = s[j] => i = j} :
             /\ tasks' = ts
             /\ heap' = [a \in Addrs |->
                           IF \E i \in 1..Len(ts) : ts[i] = a
                           THEN loaded[CHOOSE i \in 1..Len(ts) : ts[i] = a] ELSE NoTask]
    /\ nextId' = IF file.exists THEN file.nextId ELSE 1
    /\ root_' = EmptyTrie
    /\ total_indexed_tasks_' = 0
    /\ index_dirty_' = TRUE
    /\ stats_dirty_' = TRUE
    /\ hist' = NoHist
    /\ cached_stats_' = NoStats
    /\ save_future_' = "invalid"
    /\ save_threads' = <<>>
    /\ lastOp' = Op("restart", 0, <<>>)
    /\ result' = <<>>
    /\ UNCHANGED file

PersistNext ==
    \/ \E name \in StoreNames : AddTask(name, TODO, LOW)
    \/ \E id \in Ids : RemoveTask(id)
    \/ SaveAsync
    \/ Restart
    \/ \E query \in StoreQueries : AdvancedSearch(query)

PersistSpec == StoreInit /\ [][PersistNext]_vars

\* C17: advancedSearch(q) returns its results in strictly ascending task-id
\* order, with no task appearing twice, and every returned task is an element
\* of the store's current collection, for every query and every store state.
C17_AscendingIds ==
    lastOp.op = "advancedSearch" =>
        /\ \A i, j \in 1..Len(result) : i < j => heap[result[i]].id < heap[result[j]].id
        /\ \A i, j \in 1..Len(result) : result[i] = result[j] => i = j
        /\ Range(result) \subseteq Range(tasks)

(***************************************************************************)
(* The store with the commands that change a task in place, through the    *)
(* pointer Tasks::findTask returns, and then save.                          *)
(***************************************************************************)
\* executeTaskOperation: findTask(id); when the task is found, op on the object
\* and Tasks::save.  No flag of the store is touched.
executeTaskOperation(id, name, edited) ==
    /\ IF FindPos(id) = 0
       THEN UNCHANGED <<heap, file>>
       ELSE /\ heap' = [heap EXCEPT ![tasks[FindPos(id)]] = edited]
            /\ file' = saveToFile(nextId, tasks, heap')
    /\ lastOp' = IF FindPos(id) = 0 THEN Failed(name, 0, <<>>) ELSE Op(name, 0, <<>>)
    /\ result' = <<>>
    /\ UNCHANGED <<indexVars, tasks, nextId, index_dirty_, stats_dirty_, hist, asyncVars>>

\* the object findTask(id) points to; NoTask when there is none
findTask(id) == IF FindPos(id) = 0 THEN NoTask ELSE heap[tasks[FindPos(id)]]

handleCompleteCommand(id) ==
    executeTaskOperation(id, "complete", markCompleted(findTask(id)))

handleTagCommand(id, tag) ==
    executeTaskOperation(id, "tag", addTag(findTask(id), tag))

handleUntagCommand(id, tag) ==
    executeTaskOperation(id, "untag", removeTag(findTask(id), tag))

CommandQueries == {<<"X">>, <<"B">>}
CommandIds == {1}

CommandNext ==
    \/ AddTask(<<"a", "B">>, TODO, LOW)
    \/ \E id \in Ids : RemoveTask(id)
    \/ \E id \in CommandIds : handleCompleteCommand(id)
    \/ \E id \in CommandIds : handleTagCommand(id, <<"x">>)
    \/ \E id \in CommandIds : handleUntagCommand(id, <<"x">>)
    \/ \E query \in CommandQueries : AdvancedSearch(query)

CommandSpec == StoreInit /\ [][CommandNext]_vars

\* C19: no stale search results.  For every non-empty q, advancedSearch(q)
\* returns exactly the tasks of the current collection for which lowercase(q)
\* is a substring of the task's current lowercased name, description, a tag,
\* status label or priority label, after any sequence of store operations,
\* edits made in place through the pointer returned by findTask (the tag, untag
\* and complete commands) after an earlier advancedSearch included.
C19_NoStaleResults ==
    (lastOp.op = "advancedSearch" /\ lastOp.query # <<>>) =>
        Range(result) = {a \in Range(tasks) : PrefixMatches(heap[a], lastOp.query)}

(***************************************************************************)
(* The store with its statistics cache.                                     *)
(***************************************************************************)
\* the loop of getStatistics over the collection; no task of the model has a
\* due date, so none is overdue
computeStatistics(h, ts) ==
    LET NumStatus(st) == Cardinality({i \in 1..Len(ts) : h[ts[i]].status = st})
        NumPriority(pr) == Cardinality({i \in 1..Len(ts) : h[ts[i]].priority = pr})
    IN [has_value |-> TRUE,
        total |-> Len(ts),
        todo |-> NumStatus(TODO),
        inProgress |-> NumStatus(IN_PROGRESS),
        completed |-> NumStatus(COMPLETED),
        lowPriority |-> NumPriority(LOW),
        mediumPriority |-> NumPriority(MEDIUM),
        highPriority |-> NumPriority(HIGH),
        overdue |-> 0]

\* Tasks::getStatistics: the cached value when the flag is clear and there is
\* one, else a count that is stored and clears the flag
GetStatistics ==
    /\ IF ~stats_dirty_ /\ cached_stats_.has_value
       THEN /\ result' = cached_stats_
            /\ UNCHANGED <<cached_stats_, stats_dirty_>>
       ELSE /\ result' = computeStatistics(heap, tasks)
            /\ cached_stats_' = computeStatistics(heap, tasks)
            /\ stats_dirty_' = FALSE
    /\ lastOp' = Op("getStatistics", 0, <<>>)
    /\ UNCHANGED <<heap, indexVars, tasks, nextId, index_dirty_, file, hist,
                   save_future_, save_threads>>

StatsNext ==
    \/ \E name \in StoreNames : AddTask(name, TODO, LOW)
    \/ \E id \in Ids : RemoveTask(id)
    \/ RemoveAllTasks
    \/ \E id \in Ids : UpdateTask(id, <<"b">>, IN_PROGRESS, HIGH)
    \/ \E id \in CommandIds : handleCompleteCommand(id)
    \/ GetStatistics

StatsSpec == StoreInit /\ [][StatsNext]_vars

\* C27: statistics cache freshness.  getStatistics() returns the current
\* statistics: its total, per-status and per-priority counts equal a fresh count
\* over the current collection after any sequence of addTask, removeTask,
\* removeAllTasks, updateTask and in-place edits through findTask (e.g.
\* markCompleted); a cached value is never returned when it differs from a
\* fresh count.
C27_StatisticsFresh ==
    lastOp.op = "getStatistics" =>
        LET Num(Holds(_)) == Cardinality({i \in 1..Len(tasks) : Holds(heap[tasks[i]])})
            IsTodo(t) == t.status = TODO
            IsInProgress(t) == t.status = IN_PROGRESS
            IsCompleted(t) == t.status = COMPLETED
            IsLow(t) == t.priority = LOW
            IsMedium(t) == t.priority = MEDIUM
            IsHigh(t) == t.priority = HIGH
        IN /\ result.total = Len(tasks)
           /\ result.todo = Num(IsTodo)
           /\ result.inProgress = Num(IsInProgress)
           /\ result.completed = Num(IsCompleted)
           /\ result.lowPriority = Num(IsLow)
           /\ result.mediumPriority = Num(IsMedium)
           /\ result.highPriority = Num(IsHigh)

(***************************************************************************)
(* The store with background saves that run while the store is used.  A    *)
(* background thread is the pair of values its lambda captured.            *)
(***************************************************************************)
\* the deep copy saveAsync makes of every task before it starts the thread
deepCopy(ts, h) == [i \in 1..Len(ts) |-> h[ts[i]]]

\* the document the background thread builds from its captured copies
backgroundDocument(task_copy) ==
    [exists |-> TRUE, nextId |-> 1,
     tasks |-> [i \in 1..Len(task_copy) |-> toJson(task_copy[i])]]

\* a saveAsync that starts a thread whatever the state of the last one
StartSaveAsyncUnguarded ==
    /\ save_threads' = Append(save_threads, [task_copy |-> deepCopy(tasks, heap)])
    /\ save_future_' = "pending"
    /\ lastOp' = Op("saveAsync", 0, <<>>)
    /\ result' = <<>>
    /\ UNCHANGED <<heap, indexVars, tasks, nextId, index_dirty_, stats_dirty_, file,
                   cached_stats_, hist>>

\* Tasks::saveAsync(): nothing when the last background save has not finished;
\* else the tasks are copied and a thread is started on the copies
StartSaveAsync ==
    /\ IF save_future_ = "pending"
       THEN UNCHANGED <<save_threads, save_future_>>
       ELSE /\ save_threads' = Append(save_threads, [task_copy |-> deepCopy(tasks, heap)])
            /\ save_future_' = "pending"
    /\ lastOp' = IF save_future_ = "pending" THEN Failed("saveAsync", 0, <<>>)
                 ELSE Op("saveAsync", 0, <<>>)
    /\ result' = <<>>
    /\ UNCHANGED <<heap, indexVars, tasks, nextId, index_dirty_, stats_dirty_, file,
                   cached_stats_, hist>>

\* the lambda of saveAsync, run by the background thread: it writes the file
\* from its copies and ends, which makes the future ready
BackgroundSave ==
    /\ save_threads # <<>>
    /\ file' = backgroundDocument(Head(save_threads).task_copy)
    /\ save_threads' = Tail(save_threads)
    /\ save_future_' = IF Len(save_threads) = 1 THEN "ready" ELSE save_future_
    /\ lastOp' = Op("backgroundSave", 0, <<>>)
    /\ result' = <<>>
    /\ UNCHANGED <<heap, indexVars, tasks, nextId, index_dirty_, stats_dirty_,
                   cached_stats_, hist>>

\* Tasks::waitForSave(): returns when the future is not valid or has become ready
WaitForSave ==
    /\ save_future_ # "pending"
    /\ lastOp' = Op("waitForSave", 0, <<>>)
    /\ result' = <<>>
    /\ UNCHANGED <<heap, indexVars, storeVars, hist>>

AsyncNext ==
    \/ AddTask(<<"a", "B">>, TODO, LOW)
    \/ RemoveTask(2)
    \/ UpdateTask(1, <<"b">>, TODO, HIGH)
    \/ AdvancedSearch(<<"B">>)
    \/ StartSaveAsync
    \/ BackgroundSave
    \/ WaitForSave

AsyncSpec == StoreInit /\ [][AsyncNext]_vars

\* C28: background save isolation.  At most one background save started by
\* saveAsync() is running at any time (a saveAsync() call made while the
\* previous background save has not finished starts no new save), and the
\* background thread reads only its own deep copy of the tasks taken at call
\* time, never the live collection or the search index: the copy is the
\* collection at the call, no operation of the store changes it afterwards, and
\* the step of the thread writes the file from the copy and changes nothing of
\* the store.
C28_BackgroundSaveIsolation ==
    /\ [](Len(save_threads) <= 1)
    /\ [](save_future_ = "pending" <=> save_threads # <<>>)
    /\ [][(lastOp'.op = "saveAsync" /\ save_threads # <<>>) =>
             save_threads' = save_threads /\ ~lastOp'.ok]_vars
    /\ [][(lastOp'.op = "saveAsync" /\ save_threads = <<>>) =>
             save_threads' = <<[task_copy |-> deepCopy(tasks, heap)]>>]_vars
    /\ [][lastOp'.op \notin {"saveAsync", "backgroundSave"} =>
             save_threads' = save_threads]_vars
    /\ [][lastOp'.op = "backgroundSave" =>
             /\ file' = backgroundDocument(Head(save_threads).task_copy)
             /\ UNCHANGED <<heap, tasks, nextId, indexVars, index_dirty_, stats_dirty_>>]_vars

\* the thread has written its copy after the collection was changed and the
\* index rebuilt: the file does not show the live collection
C28_Witness ==
    /\ lastOp = Op("backgroundSave", 0, <<>>)
    /\ Len(file.tasks) = 1
    /\ Len(tasks) = 2
    /\ file.tasks[1] # toJson(heap[tasks[1]])
    /\ index_dirty_ = FALSE
    /\ save_future_ = "ready"

\* C29 (PersistSpec): async snapshot round trip.  When saveAsync() is called
\* with no save in flight and waitForSave() returns with no store mutation in
\* between, a new Tasks loaded from the written file has the same tasks and the
\* same nextId as the saving store had at the call, exactly as for the
\* synchronous saveToFile(), so ids assigned after the reload do not collide
\* with ids of loaded tasks.
C29_AsyncRoundTrip ==
    /\ lastOp.op = "saveAsync" =>
          /\ file = saveToFile(nextId, tasks, heap)
          /\ [i \in 1..Len(file.tasks) |-> fromJson(file.tasks[i])] = deepCopy(tasks, heap)
          /\ file.nextId = nextId
    /\ \A i, j \in 1..Len(tasks) : heap[tasks[i]].id = heap[tasks[j]].id => i = j

(***************************************************************************)
(* The store with tasks of every status: the life of a Task from its       *)
(* construction through the setters that change its status.                *)
(***************************************************************************)
Statuses == {TODO, IN_PROGRESS, COMPLETED}

\* Task::setStatus on a task of the collection, through the pointer findTask gives
TaskSetStatus(a, status) ==
    /\ a \in Range(tasks)
    /\ Edited("setStatus", a, setStatus(heap[a], status))

\* Task::markCompleted on a task of the collection
TaskMarkCompleted(a) ==
    /\ a \in Range(tasks)
    /\ Edited("markCompleted", a, markCompleted(heap[a]))

LifecycleNext ==
    \/ \E status \in Statuses : AddTask(<<"a", "B">>, status, LOW)
    \/ \E id \in Ids, status \in Statuses : UpdateTask(id, <<"b">>, status, HIGH)
    \/ \E a \in Addrs, status \in Statuses : TaskSetStatus(a, status)
    \/ \E a \in Addrs : TaskMarkCompleted(a)
    \/ \E id \in Ids : RemoveTask(id)

LifecycleSpec == StoreInit /\ [][LifecycleNext]_vars

\* C30: completion timestamp invariant.  In every reachable state of a Task
\* created by the constructor or by Tasks::addTask with any initial status and
\* then changed by any sequence of setStatus, markCompleted and
\* Tasks::updateTask, the completion timestamp is present if and only if the
\* status is COMPLETED.
C30_CompletionTimestamp ==
    \A a \in Range(tasks) : heap[a].completed_at <=> heap[a].status = COMPLETED
====
